---- MODULE Spec2Model ----
(***************************************************************************)
(* A model of convert_sdf_utils.py: the block repairer, the property       *)
(* accessor and the convert_to_sdf pipeline.                               *)
(*                                                                         *)
(* A Python str is a sequence of one-character strings, a molecule block   *)
(* a sequence of such lines.  Python's None is the value NoneVal, which is *)
(* no character sequence.                                                  *)
(***************************************************************************)
EXTENDS Integers, Sequences, FiniteSets, TLC

VARIABLES
    \* property accessor calls (_has_prop_on_mol_block, _get_prop_value_from_mol_block)
    p_pc, p_block, p_key, p_op, p_result,
    \* one run of _make_mol_block_from_string
    r_pc, mol_str_in_lines, r_index, block, converter_calls,
    \* one run of convert_to_sdf
    pc, records, failed_block_file_name, output_dir, fs, opened, index,
    verdicts, mol_block_list, block_index, num_failed,
    valid_mol_block_list, failed_mol_block_list, accepted_src, valid_src,
    failed_src, save_valid_mol_block_to_path, save_failed_mol_block_to_path,
    max_num_atoms, result

prop_vars == <<p_pc, p_block, p_key, p_op, p_result>>

repair_vars == <<r_pc, mol_str_in_lines, r_index, block, converter_calls>>

convert_vars == <<pc, records, failed_block_file_name, output_dir, fs, opened, index,
                  verdicts, mol_block_list, block_index, num_failed,
                  valid_mol_block_list, failed_mol_block_list, accepted_src, valid_src,
                  failed_src, save_valid_mol_block_to_path,
                  save_failed_mol_block_to_path, max_num_atoms, result>>

vars == <<prop_vars, repair_vars, convert_vars>>

-----------------------------------------------------------------------------
(* Bounds of the model. *)

\* longest block handed to the property accessor
MaxBlockLen == 3

\* longest raw record handed to the block repairer
MaxRawLen == 5

\* most raw records in the input file of convert_to_sdf
MaxRecords == 2

-----------------------------------------------------------------------------
(* Python values. *)

NoneVal == <<"None">>

EMPTY == <<>>

Whitespace == {" "}

RECURSIVE FirstKept(_, _, _)
\* the first position from i on whose character is not in chars
FirstKept(s, chars, i) ==
    IF i > Len(s) \/ s[i] \notin chars THEN i ELSE FirstKept(s, chars, i + 1)

RECURSIVE LastKept(_, _, _)
\* the last position up to j whose character is not in chars
LastKept(s, chars, j) ==
    IF j < 1 \/ s[j] \notin chars THEN j ELSE LastKept(s, chars, j - 1)

\* str.strip(chars): drop leading and trailing characters that are in chars
StripChars(s, chars) ==
    SubSeq(s, FirstKept(s, chars, 1), LastKept(s, chars, Len(s)))

\* the set of characters of a str
CharsOf(s) == {s[i] : i \in 1..Len(s)}

\* str.strip()
Strip(s) == StripChars(s, Whitespace)

\* str.startswith(prefix)
StartsWith(s, prefix) ==
    /\ Len(s) >= Len(prefix)
    /\ SubSeq(s, 1, Len(prefix)) = prefix

\* sub in s
Contains(s, sub) ==
    \E i \in 1..(Len(s) - Len(sub) + 1) : SubSeq(s, i, i + Len(sub) - 1) = sub

UpperChar(c) ==
    CASE c = "n" -> "N"
      [] c = "a" -> "A"
      [] c = "m" -> "M"
      [] c = "e" -> "E"
      [] c = "h" -> "H"
      [] c = "x" -> "X"
      [] OTHER -> c

RECURSIVE Upper(_)
\* str.upper()
Upper(s) == IF s = EMPTY THEN EMPTY ELSE <<UpperChar(Head(s))>> \o Upper(Tail(s))

\* bool(x) of a str, a list or None
Truthy(x) == x # NoneVal /\ x # EMPTY

-----------------------------------------------------------------------------
(* Program constants. *)

SDF_TAG_MASS_SPEC_PEAKS == <<"M", "A", "S", "S", " ", "S", "P", "E", "C", "T", "R", "A", "L", " ", "P", "E", "A", "K", "S">>

SDF_TAG_INCHIKEY == <<"I", "N", "C", "H", "I", "K", "E", "Y">>

SDF_TAG_INCHI == <<"I", "N", "C", "H", "I">>

SDF_TAG_NAME == <<"N", "A", "M", "E">>

SDF_TAG_MOLECULE_MASS == <<"E", "X", "A", "C", "T", " ", "M", "A", "S", "S">>

expected_props == <<SDF_TAG_MASS_SPEC_PEAKS, SDF_TAG_INCHIKEY, SDF_TAG_INCHI,
                    SDF_TAG_NAME, SDF_TAG_MOLECULE_MASS>>

\* '>  <%s>' % key
SectionHeader(key) == <<">", " ", " ", "<">> \o key \o <<">">>

MARK_V2000 == <<"V", "2", "0", "0", "0">>

MARK_NAME == <<">", " ", " ", "<", "N", "A", "M", "E", ">">>

MARK_TERM == <<"$", "$", "$", "$">>

M_END == <<"M", " ", " ", "E", "N", "D">>

INCHI_PREFIX == <<"I", "n", "C", "h", "I", "=">>

COMMENT_HDR == <<">", " ", " ", "<", "C", "O", "M", "M", "E", "N", "T", ">">>

INCHI_HDR == <<">", " ", " ", "<", "I", "N", "C", "H", "I", ">">>

-----------------------------------------------------------------------------
(* Lines and tags the inputs are drawn from. *)

TAG_COMMENT == <<"C", "O", "M", "M", "E", "N", "T">>

TAG_name == <<"n", "a", "m", "e">>

L_TITLE == <<"T">>

L_COUNTS == <<"1", " ", "V", "2", "0", "0", "0">>

L_ATOM == <<" ", "C">>

L_NAME_WS == <<">", " ", " ", "<", "N", "A", "M", "E", ">", " ">>

L_INCHI_I == <<"I", "n", "C", "h", "I", "=", "1", "S", "/", "I">>

L_INCHI_O == <<"I", "n", "C", "h", "I", "=", "1", "/", "O">>

L_VALUE == <<" ", "x">>

L_PEAKS_HDR == <<">", " ", " ", "<", "M", "A", "S", "S", " ", "S", "P", "E", "C", "T", "R", "A", "L", " ", "P", "E", "A", "K", "S", ">">>

L_MASS_HDR == <<">", " ", " ", "<", "E", "X", "A", "C", "T", " ", "M", "A", "S", "S", ">">>

ValidTags == {expected_props[i] : i \in 1..Len(expected_props)}

InvalidTags == {TAG_COMMENT, TAG_name}

SeqsUpTo(S, n) == UNION {[1..k -> S] : k \in 0..n}

-----------------------------------------------------------------------------
(* Property accessor. *)

Returned(v) == [exc |-> "none", ret |-> v]

Raised(e) == [exc |-> e, ret |-> NoneVal]

\* lines 146-147 removed: an unsupported key is looked for like any other
HasPropUnchecked(blk, prop_key) ==
    Returned(\E i \in 1..Len(blk) : Strip(blk[i]) = SectionHeader(prop_key))

\* _has_prop_on_mol_block
HasProp(blk, prop_key) ==
    IF prop_key \notin ValidTags
    THEN Raised("ValueError")
    ELSE Returned(\E i \in 1..Len(blk) : Strip(blk[i]) = SectionHeader(prop_key))

\* block[ind + 1], which raises IndexError past the end of the list
ItemAfter(blk, ind) ==
    IF ind + 1 <= Len(blk) THEN Returned(blk[ind + 1]) ELSE Raised("IndexError")

RECURSIVE ScanForValue(_, _, _)
\* the for loop of lines 176-184, from the line at position ind on
ScanForValue(blk, full_name, ind) ==
    IF ind > Len(blk) THEN Returned(EMPTY)
    ELSE IF full_name = COMMENT_HDR /\ full_name = Strip(blk[ind])
    THEN LET nxt == ItemAfter(blk, ind)
         IN  IF nxt.exc # "none" THEN nxt
             ELSE IF StartsWith(nxt.ret, INCHI_PREFIX)
             THEN Returned(StripChars(nxt.ret, CharsOf(INCHI_PREFIX)))
             ELSE ScanForValue(blk, full_name, ind + 1)
    ELSE IF full_name = Strip(blk[ind])
    THEN LET nxt == ItemAfter(blk, ind)
         IN  IF nxt.exc # "none" THEN nxt
             ELSE Returned(StripChars(nxt.ret, {}))
    ELSE ScanForValue(blk, full_name, ind + 1)

\* _get_prop_value_from_mol_block
GetPropValue(blk, prop_key) ==
    LET has == HasProp(blk, prop_key)
    IN  IF has.exc # "none" THEN has
        ELSE IF has.ret \/ prop_key = SDF_TAG_INCHI
        THEN LET upper_name == SectionHeader(Upper(prop_key))
                 full_name == IF upper_name = INCHI_HDR THEN COMMENT_HDR ELSE upper_name
             IN  ScanForValue(blk, full_name, 1)
        ELSE Returned(NoneVal)

PropLines == {MARK_NAME, L_NAME_WS, COMMENT_HDR, INCHI_HDR, L_INCHI_I, L_INCHI_O,
              L_VALUE, EMPTY}

PropIdle ==
    /\ p_pc = "idle"
    /\ p_block = EMPTY
    /\ p_key = EMPTY
    /\ p_op = "none"
    /\ p_result = Returned(NoneVal)

PropInit ==
    /\ p_pc = "ready"
    /\ p_block \in SeqsUpTo(PropLines, MaxBlockLen)
    /\ p_key \in ValidTags \cup InvalidTags
    /\ p_op = "none"
    /\ p_result = Returned(NoneVal)

CallHasProp ==
    /\ p_pc = "ready"
    /\ p_pc' = "done"
    /\ p_op' = "has"
    /\ p_result' = HasProp(p_block, p_key)
    /\ UNCHANGED <<p_block, p_key, repair_vars, convert_vars>>

CallGetProp ==
    /\ p_pc = "ready"
    /\ p_pc' = "done"
    /\ p_op' = "get"
    /\ p_result' = GetPropValue(p_block, p_key)
    /\ UNCHANGED <<p_block, p_key, repair_vars, convert_vars>>

-----------------------------------------------------------------------------
(* Block repairer. *)

KEY_A == <<"K", "A", "-", "N">>

KEY_B == <<"K", "B", "-", "N">>

\* what Chem.inchi.InchiToInchiKey may return: the library is not part of the
\* program, so each call's result is any of these
Keys == {KEY_A, KEY_B}

Repaired(blk, calls) == [exc |-> "none", block |-> blk, calls |-> calls]

\* the terminator branch, lines 89-96; key is what the converter returns if called
AppendIdentifiers(blk, line, key) ==
    LET got == GetPropValue(blk, SDF_TAG_INCHI)
    IN  IF got.exc # "none" THEN [exc |-> got.exc, block |-> blk, calls |-> <<>>]
        ELSE LET inchi == got.ret
                 called == Truthy(inchi)
                 inchikey == IF called THEN key ELSE EMPTY
             IN  Repaired(blk \o <<SectionHeader(SDF_TAG_INCHI), inchi, EMPTY>>
                              \o <<SectionHeader(SDF_TAG_INCHIKEY), inchikey, EMPTY, line>>,
                          IF called
                          THEN <<[arg |-> INCHI_PREFIX \o inchi, ret |-> key]>>
                          ELSE <<>>)

\* the converter is called whatever the InChI is
RepairLineAlwaysConverting(blk, line, key) ==
    IF Contains(line, MARK_V2000) THEN Repaired(blk \o <<EMPTY, line>>, <<>>)
    ELSE IF Contains(line, MARK_NAME) THEN Repaired(blk \o <<M_END, line>>, <<>>)
    ELSE IF Contains(line, MARK_TERM)
    THEN LET got == GetPropValue(blk, SDF_TAG_INCHI)
         IN  IF got.exc # "none" THEN [exc |-> got.exc, block |-> blk, calls |-> <<>>]
             ELSE Repaired(blk \o <<SectionHeader(SDF_TAG_INCHI), got.ret, EMPTY>>
                               \o <<SectionHeader(SDF_TAG_INCHIKEY), key, EMPTY, line>>,
                           <<[arg |-> INCHI_PREFIX \o got.ret, ret |-> key]>>)
    ELSE Repaired(Append(blk, line), <<>>)

\* no end marker is put before the name header
RepairLineNoEndMarker(blk, line, key) ==
    IF Contains(line, MARK_V2000) THEN Repaired(blk \o <<EMPTY, line>>, <<>>)
    ELSE IF Contains(line, MARK_NAME) THEN Repaired(Append(blk, line), <<>>)
    ELSE IF Contains(line, MARK_TERM) THEN AppendIdentifiers(blk, line, key)
    ELSE Repaired(Append(blk, line), <<>>)

\* the else branch is lost: a line no branch claims is not copied
RepairLineDropsCopied(blk, line, key) ==
    IF Contains(line, MARK_V2000) THEN Repaired(blk \o <<EMPTY, line>>, <<>>)
    ELSE IF Contains(line, MARK_NAME) THEN Repaired(blk \o <<M_END, line>>, <<>>)
    ELSE IF Contains(line, MARK_TERM) THEN AppendIdentifiers(blk, line, key)
    ELSE Repaired(blk, <<>>)

\* one iteration of the for loop of _make_mol_block_from_string, lines 84-98
RepairLine(blk, line, key) ==
    IF Contains(line, MARK_V2000) THEN Repaired(blk \o <<EMPTY, line>>, <<>>)
    ELSE IF Contains(line, MARK_NAME) THEN Repaired(blk \o <<M_END, line>>, <<>>)
    ELSE IF Contains(line, MARK_TERM) THEN AppendIdentifiers(blk, line, key)
    ELSE Repaired(Append(blk, line), <<>>)

\* which branch of lines 84-98 a line takes
Branch(line) ==
    IF Contains(line, MARK_V2000) THEN "counts"
    ELSE IF Contains(line, MARK_NAME) THEN "name"
    ELSE IF Contains(line, MARK_TERM) THEN "term"
    ELSE "copy"

L_DOLLARS == <<" ", "$", "$", "$", "$">>

\* the lines of a raw record before its terminator line
BodyLines == {L_TITLE, L_COUNTS, MARK_NAME, COMMENT_HDR, L_INCHI_O, L_DOLLARS, M_END}

\* a raw record is the text of one item of the file (line 252): some lines and
\* the terminator line that ends the item
RawRecords == {body \o <<MARK_TERM>> : body \in SeqsUpTo(BodyLines, MaxRawLen - 1)}

RepairIdle ==
    /\ r_pc = "idle"
    /\ mol_str_in_lines = EMPTY
    /\ r_index = 0
    /\ block = EMPTY
    /\ converter_calls = <<>>

RepairInit ==
    /\ r_pc = "loop"
    /\ mol_str_in_lines \in RawRecords
    /\ r_index = 0
    /\ block = EMPTY
    /\ converter_calls = <<>>

\* lines 83-98: the loop body on the next line of the record
RepairNextLine ==
    /\ r_pc = "loop"
    /\ r_index < Len(mol_str_in_lines)
    /\ \E key \in Keys :
         LET step == RepairLine(block, mol_str_in_lines[r_index + 1], key)
         IN  /\ r_pc' = IF step.exc = "none" THEN "loop" ELSE step.exc
             /\ block' = step.block
             /\ converter_calls' = converter_calls \o step.calls
    /\ r_index' = r_index + 1
    /\ UNCHANGED <<mol_str_in_lines, prop_vars, convert_vars>>

\* line 99
RepairReturn ==
    /\ r_pc = "loop"
    /\ r_index = Len(mol_str_in_lines)
    /\ r_pc' = "returned"
    /\ UNCHANGED <<mol_str_in_lines, r_index, block, converter_calls, prop_vars,
                   convert_vars>>

-----------------------------------------------------------------------------
(* convert_to_sdf. *)

L_OBABEL == <<" ", "O", "B">>

DIR_IN == <<"/", "i">>

DIR_OUT == <<"/", "o">>

SDF_NAME == <<"m">>

FAILED_NAME == <<"f">>

CONVERTED_PREFIX == <<"c", "o", "n", "v", "e", "r", "t", "e", "d", "_">>

RECURSIVE Repeat(_, _)
Repeat(line, n) == IF n = 0 THEN <<>> ELSE <<line>> \o Repeat(line, n - 1)

\* the text of one item of the input file, as suppl.GetItemText gives it: the
\* record's lines up to and including its terminator line
BuildRecord(o) ==
    <<L_TITLE>>
    \o (IF o.counts THEN <<L_COUNTS>> ELSE <<>>)
    \o Repeat(L_ATOM, o.atoms)
    \o (IF o.name THEN <<MARK_NAME, L_VALUE, EMPTY>> ELSE <<>>)
    \o (IF o.peaks THEN <<L_PEAKS_HDR, L_VALUE, EMPTY>> ELSE <<>>)
    \o (IF o.mass THEN <<L_MASS_HDR, L_VALUE, EMPTY>> ELSE <<>>)
    \o (CASE o.comment = "inchi" -> <<COMMENT_HDR, L_INCHI_O, EMPTY>>
          [] o.comment = "text" -> <<COMMENT_HDR, L_VALUE, EMPTY>>
          [] o.comment = "bare" -> <<COMMENT_HDR>>
          [] OTHER -> <<>>)
    \o <<MARK_TERM>>

RecordOptions ==
    { [counts |-> TRUE, atoms |-> 1, name |-> TRUE, peaks |-> TRUE, mass |-> TRUE,
       comment |-> "inchi"],
      [counts |-> TRUE, atoms |-> 2, name |-> TRUE, peaks |-> TRUE, mass |-> TRUE,
       comment |-> "text"],
      [counts |-> TRUE, atoms |-> 3, name |-> FALSE, peaks |-> TRUE, mass |-> TRUE,
       comment |-> "inchi"],
      [counts |-> FALSE, atoms |-> 1, name |-> TRUE, peaks |-> TRUE, mass |-> FALSE,
       comment |-> "none"],
      [counts |-> TRUE, atoms |-> 2, name |-> TRUE, peaks |-> TRUE, mass |-> TRUE,
       comment |-> "bare"] }

RawRecordSet == {BuildRecord(o) : o \in RecordOptions}

RECURSIVE MakeMolBlockFrom(_, _, _)
\* _make_mol_block_from_string from line ind of the record on, blk built so far.
\* A record of the input file has one terminator line, so the converter is
\* called at most once and key is what that call returns.
MakeMolBlockFrom(blk, lines, key) ==
    IF lines = <<>> THEN Repaired(blk, <<>>)
    ELSE LET step == RepairLine(blk, Head(lines), key)
         IN  IF step.exc # "none" THEN step
             ELSE MakeMolBlockFrom(step.block, Tail(lines), key)

\* _make_mol_block_from_string
MakeMolBlockFromString(lines, key) == MakeMolBlockFrom(<<>>, lines, key)

\* _make_mol_block_rational: pybel either fails to read the block (None) or
\* writes it back with its own program line; which of the two is pybel's choice
MakeMolBlockRational(blk, accepted) ==
    IF ~accepted THEN NoneVal
    ELSE IF Len(blk) >= 2 THEN <<blk[1], L_OBABEL>> \o SubSeq(blk, 3, Len(blk))
    ELSE blk

\* np.all over the wrong list: one present property is enough
CheckMolBlockHasAnyProp(blk) ==
    \E i \in 1..Len(expected_props) : HasProp(blk, expected_props[i]).ret

\* _check_mol_block_has_all_prop
CheckMolBlockHasAllProp(blk) ==
    \A i \in 1..Len(expected_props) : HasProp(blk, expected_props[i]).ret

\* len(mol.atoms) of the molecule pybel reads from the block
AtomCount(blk) == Cardinality({i \in 1..Len(blk) : blk[i] = L_ATOM})

RECURSIVE MaxAtomsLoop(_, _)
MaxAtomsLoop(list, max_so_far) ==
    IF list = <<>> THEN max_so_far
    ELSE MaxAtomsLoop(Tail(list),
                      IF AtomCount(Head(list)) > max_so_far
                      THEN AtomCount(Head(list)) ELSE max_so_far)

\* the atoms of the last block, not of the largest
MaxAtomsOfLast(list) ==
    IF list = <<>> THEN 0 ELSE AtomCount(list[Len(list)])

\* _max_atoms_in_mol_block
MaxAtomsInMolBlock(list) ==
    LET m == MaxAtomsLoop(list, -1024) IN IF m > 0 THEN m ELSE 0

\* os.path.join(a, b) for a relative b
PathJoin(a, b) == a \o <<"/">> \o b

\* tf.gfile.Open(path, mode) on the files f: 'w' truncates, 'a' keeps
OpenFile(f, path, mode) ==
    IF mode = "a" /\ path \in DOMAIN f THEN f ELSE (path :> <<>>) @@ f

RECURSIVE WriteBlocksFrom(_, _, _, _)
\* the loop of _write_mol_block_to_file from the block at position i on
WriteBlocksFrom(f, path, list, i) ==
    IF i > Len(list) THEN f
    ELSE LET g == OpenFile(f, path, IF i = 1 THEN "w" ELSE "a")
         IN  WriteBlocksFrom((path :> (g[path] \o list[i])) @@ g, path, list, i + 1)

\* _write_mol_block_to_file: the files after it
WriteMolBlockToFile(f, path, list) == WriteBlocksFrom(f, path, list, 1)

\* the opens _write_mol_block_to_file makes
OpensOf(path, list) ==
    (IF Len(list) >= 1 THEN {<<path, "w">>} ELSE {})
    \cup (IF Len(list) >= 2 THEN {<<path, "a">>} ELSE {})

ConvertIdle ==
    /\ pc = "idle"
    /\ records = <<>>
    /\ failed_block_file_name = NoneVal
    /\ output_dir = NoneVal
    /\ fs = <<>>
    /\ opened = {}
    /\ index = 0
    /\ verdicts = <<>>
    /\ mol_block_list = <<>>
    /\ block_index = 0
    /\ num_failed = 0
    /\ valid_mol_block_list = <<>>
    /\ failed_mol_block_list = <<>>
    /\ accepted_src = <<>>
    /\ valid_src = <<>>
    /\ failed_src = <<>>
    /\ save_valid_mol_block_to_path = NoneVal
    /\ save_failed_mol_block_to_path = NoneVal
    /\ max_num_atoms = 0
    /\ result = NoneVal

StaleFile == <<L_TITLE, MARK_TERM>>

ConvertInit ==
    /\ pc = "read"
    /\ records \in SeqsUpTo(RawRecordSet, MaxRecords)
    /\ failed_block_file_name \in {NoneVal, EMPTY, FAILED_NAME}
    /\ output_dir \in {NoneVal, EMPTY, DIR_OUT}
    /\ fs \in {<<>>,
               (PathJoin(DIR_OUT, CONVERTED_PREFIX \o SDF_NAME) :> StaleFile)
                   @@ (PathJoin(DIR_OUT, FAILED_NAME) :> StaleFile)}
    /\ opened = {}
    /\ index = 0
    /\ verdicts = <<>>
    /\ mol_block_list = <<>>
    /\ block_index = 0
    /\ num_failed = 0
    /\ valid_mol_block_list = <<>>
    /\ failed_mol_block_list = <<>>
    /\ accepted_src = <<>>
    /\ valid_src = <<>>
    /\ failed_src = <<>>
    /\ save_valid_mol_block_to_path = NoneVal
    /\ save_failed_mol_block_to_path = NoneVal
    /\ max_num_atoms = 0
    /\ result = NoneVal

\* lines 255-256 without the None test: a rejected record is appended too
KeepBlockAlways(list, mol_block) == Append(list, mol_block)

\* lines 255-256
KeepBlock(list, mol_block) ==
    IF mol_block # NoneVal THEN Append(list, mol_block) ELSE list

\* lines 250-256: one iteration of the loop over the records of the file.
\* verdicts and accepted_src record what the normalizer said of each record.
ReadRecord ==
    /\ pc = "read"
    /\ index < Len(records)
    /\ \E key \in Keys :
         LET made == MakeMolBlockFromString(records[index + 1], key)
         IN  IF made.exc # "none"
             THEN /\ pc' = "raised_repair"
                  /\ UNCHANGED <<verdicts, mol_block_list, accepted_src>>
             ELSE \E accepted \in BOOLEAN :
                    LET mol_block == MakeMolBlockRational(made.block, accepted)
                    IN  /\ pc' = "read"
                        /\ verdicts' = Append(verdicts, accepted)
                        /\ mol_block_list' = KeepBlock(mol_block_list, mol_block)
                        /\ accepted_src' =
                               IF Len(mol_block_list') > Len(mol_block_list)
                               THEN Append(accepted_src, index + 1)
                               ELSE accepted_src
    /\ index' = index + 1
    /\ UNCHANGED <<records, failed_block_file_name, output_dir, fs, opened, block_index,
                   num_failed, valid_mol_block_list, failed_mol_block_list, valid_src,
                   failed_src, save_valid_mol_block_to_path,
                   save_failed_mol_block_to_path, max_num_atoms, result, prop_vars,
                   repair_vars>>

\* lines 258-260, once the loop over the records is over
StartPartition ==
    /\ pc = "read"
    /\ index = Len(records)
    /\ pc' = "partition"
    /\ num_failed' = 0
    /\ valid_mol_block_list' = <<>>
    /\ failed_mol_block_list' = <<>>
    /\ block_index' = 0
    /\ UNCHANGED <<records, failed_block_file_name, output_dir, fs, opened, index,
                   verdicts, mol_block_list, accepted_src, valid_src, failed_src,
                   save_valid_mol_block_to_path, save_failed_mol_block_to_path,
                   max_num_atoms, result, prop_vars, repair_vars>>

\* lines 261-266: one iteration of the loop over mol_block_list
PartitionBlock ==
    /\ pc = "partition"
    /\ block_index < Len(mol_block_list)
    /\ LET mol_block == mol_block_list[block_index + 1]
       IN  IF CheckMolBlockHasAllProp(mol_block)
           THEN /\ valid_mol_block_list' = Append(valid_mol_block_list, mol_block)
                /\ valid_src' = Append(valid_src, accepted_src[block_index + 1])
                /\ UNCHANGED <<num_failed, failed_mol_block_list, failed_src>>
           ELSE /\ num_failed' = num_failed + 1
                /\ failed_mol_block_list' = Append(failed_mol_block_list, mol_block)
                /\ failed_src' = Append(failed_src, accepted_src[block_index + 1])
                /\ UNCHANGED <<valid_mol_block_list, valid_src>>
    /\ block_index' = block_index + 1
    /\ UNCHANGED <<pc, records, failed_block_file_name, output_dir, fs, opened, index,
                   verdicts, mol_block_list, accepted_src,
                   save_valid_mol_block_to_path, save_failed_mol_block_to_path,
                   max_num_atoms, result, prop_vars, repair_vars>>

\* lines 268-273: os.path.abspath (line 271) and os.path.join (line 273) raise
\* on None; "output_dir is ''" holds of the empty string and of nothing else
ComputePaths ==
    /\ pc = "partition"
    /\ block_index = Len(mol_block_list)
    /\ LET dir == IF output_dir = EMPTY THEN DIR_IN ELSE output_dir
       IN  IF dir = NoneVal
           THEN /\ pc' = "raised_abspath"
                /\ UNCHANGED <<output_dir, save_valid_mol_block_to_path,
                               save_failed_mol_block_to_path>>
           ELSE IF failed_block_file_name = NoneVal
           THEN /\ pc' = "raised_join"
                /\ output_dir' = dir
                /\ save_valid_mol_block_to_path' =
                       PathJoin(dir, CONVERTED_PREFIX \o SDF_NAME)
                /\ UNCHANGED save_failed_mol_block_to_path
           ELSE /\ pc' = "write_valid"
                /\ output_dir' = dir
                /\ save_valid_mol_block_to_path' =
                       PathJoin(dir, CONVERTED_PREFIX \o SDF_NAME)
                /\ save_failed_mol_block_to_path' =
                       PathJoin(dir, failed_block_file_name)
    /\ UNCHANGED <<records, failed_block_file_name, fs, opened, index, verdicts,
                   mol_block_list, block_index, num_failed, valid_mol_block_list,
                   failed_mol_block_list, accepted_src, valid_src, failed_src,
                   max_num_atoms, result, prop_vars, repair_vars>>

\* lines 275-278
WriteValid ==
    /\ pc = "write_valid"
    /\ pc' = "write_failed"
    /\ IF valid_mol_block_list # <<>>
       THEN /\ fs' = WriteMolBlockToFile(fs, save_valid_mol_block_to_path,
                                         valid_mol_block_list)
            /\ opened' = opened \cup OpensOf(save_valid_mol_block_to_path,
                                             valid_mol_block_list)
            /\ max_num_atoms' = MaxAtomsInMolBlock(valid_mol_block_list)
       ELSE /\ max_num_atoms' = 0
            /\ UNCHANGED <<fs, opened>>
    /\ UNCHANGED <<records, failed_block_file_name, output_dir, index, verdicts,
                   mol_block_list, block_index, num_failed, valid_mol_block_list,
                   failed_mol_block_list, accepted_src, valid_src, failed_src,
                   save_valid_mol_block_to_path, save_failed_mol_block_to_path,
                   result, prop_vars, repair_vars>>

\* lines 279-280
WriteFailed ==
    /\ pc = "write_failed"
    /\ pc' = "return"
    /\ IF Truthy(failed_block_file_name) /\ Truthy(failed_mol_block_list)
       THEN /\ fs' = WriteMolBlockToFile(fs, save_failed_mol_block_to_path,
                                         failed_mol_block_list)
            /\ opened' = opened \cup OpensOf(save_failed_mol_block_to_path,
                                             failed_mol_block_list)
       ELSE UNCHANGED <<fs, opened>>
    /\ UNCHANGED <<records, failed_block_file_name, output_dir, index, verdicts,
                   mol_block_list, block_index, num_failed, valid_mol_block_list,
                   failed_mol_block_list, accepted_src, valid_src, failed_src,
                   save_valid_mol_block_to_path, save_failed_mol_block_to_path,
                   max_num_atoms, result, prop_vars, repair_vars>>

\* lines 281-288
Return ==
    /\ pc = "return"
    /\ pc' = "done"
    /\ result' = [valid_mol_block_list |-> valid_mol_block_list,
                  failed_mol_block_list |-> failed_mol_block_list,
                  num_valid_mol_block |-> Len(valid_mol_block_list),
                  num_failed_mol_block |-> Len(failed_mol_block_list),
                  max_num_atoms |-> max_num_atoms]
    /\ UNCHANGED <<records, failed_block_file_name, output_dir, fs, opened, index,
                   verdicts, mol_block_list, block_index, num_failed,
                   valid_mol_block_list, failed_mol_block_list, accepted_src, valid_src,
                   failed_src, save_valid_mol_block_to_path,
                   save_failed_mol_block_to_path, max_num_atoms, prop_vars,
                   repair_vars>>

-----------------------------------------------------------------------------
(* Specifications. *)

Init == PropIdle /\ RepairIdle /\ ConvertInit

Next ==
    \/ ReadRecord
    \/ StartPartition
    \/ PartitionBlock
    \/ ComputePaths
    \/ WriteValid
    \/ WriteFailed
    \/ Return

\* convert_to_sdf on a file of records
Spec == Init /\ [][Next]_vars

InitRepair == PropIdle /\ RepairInit /\ ConvertIdle

NextRepair == RepairNextLine \/ RepairReturn

\* _make_mol_block_from_string on one raw record
SpecRepair == InitRepair /\ [][NextRepair]_vars

InitProp == PropInit /\ RepairIdle /\ ConvertIdle

NextProp == CallHasProp \/ CallGetProp

\* the property accessor on one block and one key
SpecProp == InitProp /\ [][NextProp]_vars

-----------------------------------------------------------------------------
(* Claims about the property accessor, under SpecProp. *)

MinOf(S) == CHOOSE x \in S : \A y \in S : x <= y

RequiredTags == {SDF_TAG_MASS_SPEC_PEAKS, SDF_TAG_INCHIKEY, SDF_TAG_INCHI, SDF_TAG_NAME,
                 SDF_TAG_MOLECULE_MASS}

\* the positions of the lines of blk that trim to the header of tag
HeaderLines(blk, tag) ==
    {i \in 1..Len(blk) : Strip(blk[i]) = <<">", " ", " ", "<">> \o tag \o <<">">>}

\* C5: for every block and every tag of the closed set other than INCHI,
\* getProperty returns the line that follows the first line trimming to the tag's
\* header, and returns '' when the block has no such header line.
C5_GetPropertyReturnsNextLine ==
    (p_pc = "done" /\ p_op = "get" /\ p_key \in RequiredTags \ {SDF_TAG_INCHI}) =>
        LET at == HeaderLines(p_block, p_key)
        IN  IF at = {} THEN p_result = Returned(EMPTY)
            ELSE /\ MinOf(at) + 1 <= Len(p_block)
                 /\ p_result = Returned(p_block[MinOf(at) + 1])

\* the positions of the comment headers of blk whose next line starts with InChI=
InchiComments(blk) ==
    {i \in 1..(Len(blk) - 1) :
        /\ Strip(blk[i]) = COMMENT_HDR
        /\ StartsWith(blk[i + 1], INCHI_PREFIX)}

\* C6: for the INCHI tag getProperty looks under the comment header: it returns a
\* value only if the line after that header starts with 'InChI=', the value is that
\* line with exactly that prefix removed and every other character kept, and
\* otherwise it returns ''.  Stated of the calls that return: a call that raises
\* (a comment header ending the block) returns nothing at all.
C6_InchiPrefixRemoved ==
    (p_pc = "done" /\ p_op = "get" /\ p_key = SDF_TAG_INCHI /\ p_result.exc = "none") =>
        LET at == InchiComments(p_block)
        IN  IF at = {} THEN p_result = Returned(EMPTY)
            ELSE LET line == p_block[MinOf(at) + 1]
                 IN  p_result = Returned(SubSeq(line, Len(INCHI_PREFIX) + 1, Len(line)))

\* C7: hasProperty and getProperty, called with a tag outside the closed set of
\* five, raise ValueError for every block and return nothing.
C7_InvalidTagRaises ==
    (p_pc = "done" /\ p_key \notin RequiredTags) => p_result = Raised("ValueError")

\* C7's case: a lookup of the lower-case tag 'name' in a block that has a NAME section
C7_Witness ==
    /\ p_pc = "done"
    /\ p_op = "get"
    /\ p_key = TAG_name
    /\ HeaderLines(p_block, SDF_TAG_NAME) # {}

-----------------------------------------------------------------------------
(* Claims about the block repairer, under SpecRepair. *)

CountOf(S) == Cardinality(S)

\* the positions of the lines of a record that take the given branch
BranchLines(lines, branch) == {i \in 1..Len(lines) : Branch(lines[i]) = branch}

\* the InChI value and the key the repairer attached: what the one converter call
\* was given and gave, or two empty strings when it was not called
AttachedInchi ==
    IF converter_calls = <<>> THEN EMPTY
    ELSE SubSeq(converter_calls[1].arg, Len(INCHI_PREFIX) + 1,
                Len(converter_calls[1].arg))

AttachedKey == IF converter_calls = <<>> THEN EMPTY ELSE converter_calls[1].ret

IsMarkerOrIdHeader(line) ==
    Strip(line) \in {M_END, SectionHeader(SDF_TAG_INCHI), SectionHeader(SDF_TAG_INCHIKEY)}

\* exactly one end marker, and one INCHI and one INCHIKEY header, each followed
\* by its value
OneMarkerAndIdentifiers(blk, inchi, key) ==
    /\ CountOf({i \in 1..Len(blk) : Strip(blk[i]) = M_END}) = 1
    /\ \A tag \in {SDF_TAG_INCHI, SDF_TAG_INCHIKEY} :
         /\ CountOf(HeaderLines(blk, tag)) = 1
         /\ \A i \in HeaderLines(blk, tag) :
              /\ i + 1 <= Len(blk)
              /\ blk[i + 1] = IF tag = SDF_TAG_INCHI THEN inchi ELSE key

\* C8 as claimed: every block the repairer returns, from any raw record, has
\* exactly one 'M  END' line and exactly one INCHI and one INCHIKEY header line,
\* each immediately followed by its value line.
C8_Original ==
    r_pc = "returned" =>
        /\ CountOf({i \in 1..Len(block) : Strip(block[i]) = M_END}) = 1
        /\ \A tag \in {SDF_TAG_INCHI, SDF_TAG_INCHIKEY} :
             /\ CountOf(HeaderLines(block, tag)) = 1
             /\ \A i \in HeaderLines(block, tag) : i + 1 <= Len(block)

\* the records C8 holds for: one line takes the name branch, one the terminator
\* branch, and no line of the record and no attached value is itself an end
\* marker or an INCHI or INCHIKEY header
C8_Regular ==
    /\ CountOf(BranchLines(mol_str_in_lines, "name")) = 1
    /\ CountOf(BranchLines(mol_str_in_lines, "term")) = 1
    /\ \A i \in 1..Len(mol_str_in_lines) : ~IsMarkerOrIdHeader(mol_str_in_lines[i])
    /\ ~IsMarkerOrIdHeader(AttachedInchi)
    /\ ~IsMarkerOrIdHeader(AttachedKey)

\* C8, amended: a block the repairer returns from a record with exactly one
\* name-section line and exactly one terminator line, none of whose lines or
\* attached values is itself an end marker or an INCHI or INCHIKEY header, has
\* exactly one 'M  END' line and exactly one INCHI and one INCHIKEY header line,
\* each immediately followed by its value line.
C8_OneMarkerOneSectionEach ==
    (r_pc = "returned" /\ C8_Regular) =>
        OneMarkerAndIdentifiers(block, AttachedInchi, AttachedKey)

\* C8's case: a regular record with an InChI comment, so that the converter was
\* called and both values are non-empty
C8_Witness ==
    /\ r_pc = "returned"
    /\ C8_Regular
    /\ converter_calls # <<>>
    /\ AttachedInchi # EMPTY

\* out is lines with six lines put before each line that holds the terminator
\* and nothing else added, dropped or changed
OnlyTerminatorInsertions(lines, out) ==
    LET IsTerm(i) == Contains(lines[i], MARK_TERM)
        Terms(j) == CountOf({i \in 1..j : IsTerm(i)})
    IN  /\ Len(out) = Len(lines) + 6 * Terms(Len(lines))
        /\ \A j \in 1..Len(lines) : out[j + 6 * Terms(j)] = lines[j]

NoLineHolds(lines, mark) == \A i \in 1..Len(lines) : ~Contains(lines[i], mark)

\* C9 as claimed: for a record with no line holding 'V2000' the repairer's output
\* is the input lines, unchanged and in order, but for the lines put right before
\* the terminator line.
C9_Original ==
    (r_pc = "returned" /\ NoLineHolds(mol_str_in_lines, MARK_V2000)) =>
        OnlyTerminatorInsertions(mol_str_in_lines, block)

\* C9, amended: for a record with no line holding 'V2000' and no line holding
\* '>  <NAME>' the repairer's output is the input lines, unchanged and in order,
\* but for the lines put right before the terminator line.
C9_FrameWithoutCountsAndName ==
    (/\ r_pc = "returned"
     /\ NoLineHolds(mol_str_in_lines, MARK_V2000)
     /\ NoLineHolds(mol_str_in_lines, MARK_NAME)) =>
        OnlyTerminatorInsertions(mol_str_in_lines, block)

\* C9's case: such a record with lines to copy and an InChI to attach
C9_Witness ==
    /\ r_pc = "returned"
    /\ NoLineHolds(mol_str_in_lines, MARK_V2000)
    /\ NoLineHolds(mol_str_in_lines, MARK_NAME)
    /\ Len(mol_str_in_lines) >= 4
    /\ converter_calls # <<>>

\* the step of the repairer on a terminator line that does not raise
TerminatorStep ==
    /\ r_pc = "loop"
    /\ r_index < Len(mol_str_in_lines)
    /\ Branch(mol_str_in_lines[r_index + 1]) = "term"
    /\ r_pc' = "loop"

\* C10: at the terminator the repairer emits the INCHI header, the InChI value, a
\* blank line, the INCHIKEY header, the key, a blank line and the terminator, in
\* this order; the converter is called, once, exactly when the looked-up InChI
\* is not empty, and with an empty InChI the key is '' and no call is made.
C10_TerminatorEmission ==
    [][TerminatorStep =>
        LET emitted == SubSeq(block', Len(block) + 1, Len(block'))
            made == SubSeq(converter_calls', Len(converter_calls) + 1,
                           Len(converter_calls'))
        IN  /\ SubSeq(block', 1, Len(block)) = block
            /\ SubSeq(converter_calls', 1, Len(converter_calls)) = converter_calls
            /\ Len(emitted) = 7
            /\ emitted[1] = INCHI_HDR
            /\ emitted[3] = EMPTY
            /\ emitted[4] = <<">", " ", " ", "<", "I", "N", "C", "H", "I", "K", "E", "Y", ">">>
            /\ emitted[6] = EMPTY
            /\ emitted[7] = mol_str_in_lines[r_index + 1]
            /\ IF emitted[2] = EMPTY
               THEN made = <<>> /\ emitted[5] = EMPTY
               ELSE /\ Len(made) = 1
                    /\ made[1].arg = INCHI_PREFIX \o emitted[2]
                    /\ emitted[5] = made[1].ret]_vars

\* C10's cases: a record with two terminator lines, the first reached with no
\* InChI (no call, empty key) and the second with one (one call)
C10_Witness ==
    /\ r_pc = "returned"
    /\ CountOf(BranchLines(mol_str_in_lines, "term")) = 2
    /\ Len(converter_calls) = 1
    /\ \E i \in 1..Len(block) - 1 :
         block[i] = SectionHeader(SDF_TAG_INCHIKEY) /\ block[i + 1] = EMPTY

-----------------------------------------------------------------------------
(* Claims about convert_to_sdf, under Spec. *)

\* a block has a header line for each of the five required tags
Complete(blk) == \A tag \in RequiredTags : HeaderLines(blk, tag) # {}

Incomplete(blk) == ~Complete(blk)

RangeOf(seq) == {seq[i] : i \in 1..Len(seq)}

\* the partition loop is over
Partitioned == pc \in {"write_valid", "write_failed", "return", "done"}

\* C1: the valid group is the accepted blocks that have all five required tags, in
\* input order; the incomplete group is the other accepted blocks, in input
\* order, each lacking a required tag; every accepted block is in exactly one.
C1_PartitionIsOrderedFilter ==
    /\ pc = "partition" =>
         LET seen == SubSeq(mol_block_list, 1, block_index)
         IN  /\ valid_mol_block_list = SelectSeq(seen, Complete)
             /\ failed_mol_block_list = SelectSeq(seen, Incomplete)
    /\ Partitioned =>
         /\ valid_mol_block_list = SelectSeq(mol_block_list, Complete)
         /\ failed_mol_block_list = SelectSeq(mol_block_list, Incomplete)
         /\ RangeOf(valid_src) \cap RangeOf(failed_src) = {}
         /\ RangeOf(valid_src) \cup RangeOf(failed_src) = RangeOf(accepted_src)
    /\ pc = "done" =>
         /\ result.valid_mol_block_list = SelectSeq(mol_block_list, Complete)
         /\ result.failed_mol_block_list = SelectSeq(mol_block_list, Incomplete)

\* C1's case: a run that returned a valid and an incomplete block
C1_Witness ==
    /\ pc = "done"
    /\ Len(result.valid_mol_block_list) = 1
    /\ Len(result.failed_mol_block_list) = 1
    /\ \E tag \in RequiredTags : HeaderLines(result.failed_mol_block_list[1], tag) # {}

\* the records read so far that the normalizer accepted, and those it rejected
AcceptedRecords == {i \in 1..Len(verdicts) : verdicts[i]}

RejectedRecords == {i \in 1..Len(verdicts) : ~verdicts[i]}

\* C2: the two counts together never exceed the number of records the normalizer
\* accepted and are less than the number of raw records when one was rejected; a
\* rejected record is in neither group and in neither count.
C2_CountsBoundedByAccepted ==
    /\ RejectedRecords \cap
           (RangeOf(accepted_src) \cup RangeOf(valid_src) \cup RangeOf(failed_src)) = {}
    /\ Len(mol_block_list) <= CountOf(AcceptedRecords)
    /\ Len(valid_mol_block_list) + Len(failed_mol_block_list) <= CountOf(AcceptedRecords)
    /\ pc = "done" =>
         /\ result.num_valid_mol_block + result.num_failed_mol_block
                <= CountOf(AcceptedRecords)
         /\ RejectedRecords # {} =>
                result.num_valid_mol_block + result.num_failed_mol_block < Len(records)

\* C2's case: a run that returned with one record rejected and one counted
C2_Witness ==
    /\ pc = "done"
    /\ RejectedRecords # {}
    /\ result.num_valid_mol_block + result.num_failed_mol_block = 1

\* the largest of a set of numbers, 0 for the empty set
LargestOf(S) == IF S = {} THEN 0 ELSE CHOOSE m \in S : \A n \in S : m >= n

\* C3: the maximum atom count returned is the largest atom count among the blocks
\* of the valid group alone; with an empty valid group it is 0 and the converted
\* file is never opened, so none is created.
C3_MaxAtomsOverValidOnly ==
    pc = "done" =>
        /\ result.max_num_atoms =
               LargestOf({AtomCount(result.valid_mol_block_list[i]) :
                              i \in 1..Len(result.valid_mol_block_list)})
        /\ result.valid_mol_block_list = <<>> =>
               /\ result.max_num_atoms = 0
               /\ \A o \in opened : o[1] # save_valid_mol_block_to_path
               /\ save_valid_mol_block_to_path \in DOMAIN fs =>
                      fs[save_valid_mol_block_to_path] = StaleFile

\* C3's case: an incomplete block with more atoms than any valid one
C3_Witness ==
    /\ pc = "done"
    /\ result.valid_mol_block_list # <<>>
    /\ \E i \in 1..Len(result.failed_mol_block_list) :
         AtomCount(result.failed_mol_block_list[i]) > result.max_num_atoms

\* the failed-block file was written
FailedFileWritten == \E o \in opened : o[1] = save_failed_mol_block_to_path

\* C4: the incomplete group is written exactly when a file name was given and the
\* group is not empty; with failed_block_file_name left at None nothing is
\* written for it and convert_to_sdf still returns its result.
C4_FailedFileOptional ==
    /\ pc = "done" =>
         (FailedFileWritten <=>
              (Truthy(failed_block_file_name) /\ failed_mol_block_list # <<>>))
    /\ failed_block_file_name = NoneVal =>
         /\ pc # "raised_join"
         /\ ~FailedFileWritten

====
